---- MODULE Spec2Model ----
(***************************************************************************)
(* OnionMotion: the Frame Store of static/JS/app.js (FrameStore, one       *)
(* localStorage record under 'onionmotion_frames'), the capture page of    *)
(* static/JS/camera.js (an in-memory array mirrored under                  *)
(* 'onionMotionFrames'), the playback page (VideoPlayerModule of app.js    *)
(* and the player of camera.js, each with the timers it starts) and the    *)
(* export of VideoPlayerModule (GIF, WebM, one download per frame).        *)
(*                                                                         *)
(* JavaScript indices are 0-based; sequences here are 1-based, so element  *)
(* i of an array is arr[i + 1].                                            *)
(***************************************************************************)
EXTENDS Integers, Sequences, FiniteSets, TLC

\* ------------------------------------------------------------------ bounds

\* What the localStorage record can hold before setItem raises
\* QuotaExceededError, counted in array elements.
QuotaItems == 3

\* The values Date.now() takes.
ClockValues == {0, 1}

\* Data URLs handed to the store.
Images == {"data:imgA", "data:imgB"}

\* Outcomes of Math.random().toString(36).substr(2, 9).
RandomSuffixes == {"k3x9", "p07q"}

\* Index arguments tried on reorderFrames: below, inside and above 0..length-1.
IndexInputs == -1 .. QuotaItems

VARIABLES
    storage,     \* localStorage['onionmotion_frames'] (app.js)
    now,         \* Date.now()
    op,          \* the last handler that ran, and whether its arguments were in range
    outcome,     \* "ok", or the name of the exception that left the last handler
    ret,         \* the value the last handler returned
    dispatched,  \* the framesUpdated events the last handler dispatched
    camStorage,  \* localStorage['onionMotionFrames'] (camera.js)
    camFrames,   \* camera.js: let frames
    camShown,    \* camera.js: what updateUI last put on the page
    probe,       \* the arguments and the stored sequence of a probed call
    held,        \* an array a caller got from getFrames() and kept
    page,        \* the page that is open and the script that runs its player
    vp,          \* app.js: VideoPlayerModule, the timers it started, what it put on the page
    cp,          \* camera.js: the player's variables, its timers, what it put on the page
    ex,          \* app.js: the export job, the download button, what was downloaded
    up           \* app.js: the batch UploadModule.handleFiles was given, its readers

vars == <<storage, now, op, outcome, ret, dispatched, camStorage, camFrames, camShown, probe,
          held, page, vp, cp, ex, up>>

\* The variables of the capture page of camera.js.
camVars == <<camStorage, camFrames, camShown>>

\* The variables of the code that reads the store: a caller's array and the
\* playback page.
pageVars == <<held, page, vp, cp, ex, up>>

Min(a, b) == IF a < b THEN a ELSE b
Max(a, b) == IF a > b THEN a ELSE b

\* ------------------------------------------------------------- JS values

Undefined == [kind |-> "undefined"]
Null == [kind |-> "null"]

IsObject(v) == v.kind = "object"

\* `frame-${Date.now()}-${Math.random().toString(36).substr(2, 9)}`
FrameId(t, r) == <<"frame", t, r>>

\* { id, dataUrl, timestamp }: the two Date.now() of one addFrame call read
\* the same clock value t.
NewFrame(t, r, dataUrl) ==
    [kind |-> "object", id |-> FrameId(t, r), dataUrl |-> dataUrl, timestamp |-> t]

\* ------------------------------------------------------------ localStorage

\* getItem gives null for a key never written.
Absent == [kind |-> "absent"]
\* A stored text that is not JSON.
Corrupt == [kind |-> "corrupt"]
\* A stored text that is the JSON of an array.
JsonText(items) == [kind |-> "json", items |-> items]

\* JSON.stringify of one array element: an object becomes its members, the
\* values undefined and null both become the text null.
stringifyItem(v) ==
    IF IsObject(v)
    THEN IF "timestamp" \in DOMAIN v
         THEN <<"obj", v.id, v.dataUrl, v.timestamp>>
         ELSE <<"obj", v.id, v.dataUrl>>
    ELSE <<"null">>

\* JSON.stringify(frames)
JSONstringify(arr) == JsonText([i \in 1 .. Len(arr) |-> stringifyItem(arr[i])])

\* JSON.parse of one array element.
parseItem(t) ==
    IF t[1] = "null" THEN Null
    ELSE IF Len(t) = 4
         THEN [kind |-> "object", id |-> t[2], dataUrl |-> t[3], timestamp |-> t[4]]
         ELSE [kind |-> "object", id |-> t[2], dataUrl |-> t[3]]

\* JSON.parse(text): SyntaxError on a text that is not JSON.
JSONparse(text) ==
    IF text.kind = "json"
    THEN [threw |-> FALSE, value |-> [i \in 1 .. Len(text.items) |-> parseItem(text.items[i])]]
    ELSE [threw |-> TRUE, value |-> <<>>]

\* localStorage.setItem: QuotaExceededError, and the old value kept, when the
\* new value does not fit.
setItem(old, text) ==
    IF Len(text.items) > QuotaItems
    THEN [threw |-> TRUE, storage |-> old]
    ELSE [threw |-> FALSE, storage |-> text]

\* ------------------------------------------------------------- FrameStore

\* getFrames that hands out one array the store keeps for itself.
getFrames_HandsOutItsOwn(st) ==
    LET p == IF st.kind = "absent" THEN [threw |-> FALSE, value |-> <<>>] ELSE JSONparse(st)
    IN  [threw |-> p.threw, value |-> p.value, live |-> TRUE]

\* const data = localStorage.getItem(this.KEY); return data ? JSON.parse(data) : [];
\* Both JSON.parse and the literal [] make a new array on every call, one that
\* nothing in the store refers to: live is FALSE.
getFrames(st) ==
    LET p == IF st.kind = "absent" THEN [threw |-> FALSE, value |-> <<>>] ELSE JSONparse(st)
    IN  [threw |-> p.threw, value |-> p.value, live |-> FALSE]

\* What a handler that ends by an exception leaves behind.
Thrown(st, name) ==
    [outcome |-> name, storage |-> st, dispatched |-> <<>>, ret |-> Undefined]

\* saveFrames with the event dispatched before the write.
saveFrames_DispatchFirst(st, frames) ==
    LET w == setItem(st, JSONstringify(frames))
        ev == [type |-> "framesUpdated", detail |-> frames, persisted |-> st]
    IN  IF w.threw
        THEN [outcome |-> "QuotaExceededError", storage |-> st,
              dispatched |-> <<ev>>, ret |-> Undefined]
        ELSE [outcome |-> "ok", storage |-> w.storage,
              dispatched |-> <<ev>>, ret |-> Undefined]

\* localStorage.setItem(KEY, JSON.stringify(frames)); then dispatchEvent of
\* framesUpdated with detail frames. `persisted` is the record at the moment
\* of the dispatch.
saveFrames(st, frames) ==
    LET w == setItem(st, JSONstringify(frames))
    IN  IF w.threw
        THEN Thrown(st, "QuotaExceededError")
        ELSE [outcome |-> "ok", storage |-> w.storage,
              dispatched |-> <<[type |-> "framesUpdated", detail |-> frames,
                                persisted |-> w.storage]>>,
              ret |-> Undefined]

\* addFrame that saves before it pushes: the returned frame is never written.
addFrame_SavesBeforePush(st, dataUrl, t, r) ==
    LET g == getFrames(st)
        newFrame == NewFrame(t, r, dataUrl)
        s == saveFrames(st, g.value)
    IN  IF g.threw THEN Thrown(st, "SyntaxError")
        ELSE [s EXCEPT !.ret = IF s.outcome = "ok" THEN newFrame ELSE Undefined]

\* addFrame that puts the new frame first (unshift for push).
addFrame_Prepends(st, dataUrl, t, r) ==
    LET g == getFrames(st)
        newFrame == NewFrame(t, r, dataUrl)
        s == saveFrames(st, <<newFrame>> \o g.value)
    IN  IF g.threw THEN Thrown(st, "SyntaxError")
        ELSE [s EXCEPT !.ret = IF s.outcome = "ok" THEN newFrame ELSE Undefined]

\* addFrame(dataUrl): t is what Date.now() gives, r what Math.random() gives.
addFrame(st, dataUrl, t, r) ==
    LET g == getFrames(st)
        newFrame == NewFrame(t, r, dataUrl)
        s == saveFrames(st, Append(g.value, newFrame))
    IN  IF g.threw THEN Thrown(st, "SyntaxError")
        ELSE [s EXCEPT !.ret = IF s.outcome = "ok" THEN newFrame ELSE Undefined]

\* deleteFrame(id): the filter callback reads f.id, a TypeError when f is null.
deleteFrame(st, id) ==
    LET g == getFrames(st)
        keep(f) == f.id # id
    IN  IF g.threw THEN Thrown(st, "SyntaxError")
        ELSE IF \E i \in 1 .. Len(g.value) : ~IsObject(g.value[i])
        THEN Thrown(st, "TypeError")
        ELSE saveFrames(st, SelectSeq(g.value, keep))

\* Array.prototype.splice: a negative start counts from the end, and the
\* start is clamped into 0..length.
spliceStart(len, start) ==
    IF start < 0 THEN Max(len + start, 0) ELSE Min(start, len)

\* const [removed] = arr.splice(start, 1): removed is undefined when nothing
\* is at start.
spliceOut(arr, start) ==
    LET s == spliceStart(Len(arr), start)
    IN  IF s < Len(arr)
        THEN [removed |-> arr[s + 1],
              rest |-> SubSeq(arr, 1, s) \o SubSeq(arr, s + 2, Len(arr))]
        ELSE [removed |-> Undefined, rest |-> arr]

\* arr.splice(start, 0, x)
spliceIn(arr, start, x) ==
    LET s == spliceStart(Len(arr), start)
    IN  SubSeq(arr, 1, s) \o <<x>> \o SubSeq(arr, s + 1, Len(arr))

\* reorderFrames that exchanges the two positions instead of moving one.
reorderFrames_Swaps(st, fromIndex, toIndex) ==
    LET g == getFrames(st)
        a == g.value
        inside(i) == i >= 0 /\ i < Len(a)
    IN  IF g.threw THEN Thrown(st, "SyntaxError")
        ELSE IF inside(fromIndex) /\ inside(toIndex)
        THEN saveFrames(st, [a EXCEPT ![fromIndex + 1] = a[toIndex + 1],
                                      ![toIndex + 1] = a[fromIndex + 1]])
        ELSE saveFrames(st, a)

\* reorderFrames(fromIndex, toIndex)
reorderFrames(st, fromIndex, toIndex) ==
    LET g == getFrames(st)
        cut == spliceOut(g.value, fromIndex)
    IN  IF g.threw THEN Thrown(st, "SyntaxError")
        ELSE saveFrames(st, spliceIn(cut.rest, toIndex, cut.removed))

\* clearAll that writes back what it read.
clearAll_KeepsFrames(st) == saveFrames(st, getFrames(st).value)

\* clearAll()
clearAll(st) == saveFrames(st, <<>>)

\* --------------------------------------------------------------- handlers

\* The ids a delete button can carry.
IdInputs == {FrameId(t, r) : t \in ClockValues, r \in RandomSuffixes}

\* index is a position of the stored sequence.
InRange(st, index) == index >= 0 /\ index < Len(getFrames(st).value)

\* What a handler leaves in the store's variables.
Leaves(res) ==
    /\ storage' = res.storage
    /\ outcome' = res.outcome
    /\ ret' = res.ret
    /\ dispatched' = res.dispatched

Tick ==
    /\ now + 1 \in ClockValues
    /\ now' = now + 1
    /\ UNCHANGED <<storage, op, outcome, ret, dispatched, camVars, probe, pageVars>>

AddFrame(dataUrl, r) ==
    /\ Leaves(addFrame(storage, dataUrl, now, r))
    /\ op' = [name |-> "addFrame"]
    /\ UNCHANGED <<now, camVars, probe, pageVars>>

DeleteFrame(id) ==
    /\ Leaves(deleteFrame(storage, id))
    /\ op' = [name |-> "deleteFrame"]
    /\ UNCHANGED <<now, camVars, probe, pageVars>>

ReorderFramesCall(fromIndex, toIndex) ==
    /\ Leaves(reorderFrames(storage, fromIndex, toIndex))
    /\ op' = [name |-> "reorderFrames",
              inRange |-> InRange(storage, fromIndex) /\ InRange(storage, toIndex),
              moves |-> fromIndex # toIndex]
    /\ UNCHANGED <<now, camVars, pageVars>>

ReorderFrames(fromIndex, toIndex) ==
    /\ ReorderFramesCall(fromIndex, toIndex)
    /\ UNCHANGED probe

\* The same call, its arguments and the sequence it found kept in probe.
ReorderProbe(fromIndex, toIndex) ==
    /\ ReorderFramesCall(fromIndex, toIndex)
    /\ probe' = [name |-> "reorderFrames", fromIndex |-> fromIndex, toIndex |-> toIndex,
                 before |-> getFrames(storage).value]

ClearAll ==
    /\ Leaves(clearAll(storage))
    /\ op' = [name |-> "clearAll", again |-> op.name = "clearAll"]
    /\ UNCHANGED <<now, camVars, probe, pageVars>>

\* ------------------------------------------------- a caller of getFrames

\* A caller takes what getFrames() returns and keeps it.
ListCall ==
    LET g == getFrames(storage)
    IN  /\ ~g.threw
        /\ held' = [kind |-> "array", value |-> g.value, live |-> g.live]
        /\ op' = [name |-> "getFrames"]
        /\ UNCHANGED <<storage, now, outcome, ret, dispatched, camVars, probe, page, vp, cp, ex, up>>

\* The caller changes the array it keeps. The record under the store's key
\* follows only when that array is one the store kept for itself.
HeldBecomes(value, name) ==
    /\ held.kind = "array"
    /\ held' = [held EXCEPT !.value = value]
    /\ storage' = IF held.live THEN JSONstringify(value) ELSE storage
    /\ op' = [name |-> name]
    /\ UNCHANGED <<now, outcome, ret, dispatched, camVars, probe, page, vp, cp, ex, up>>

\* held.push(frame)
HeldPush(frame) ==
    /\ held.kind = "array"
    /\ Len(held.value) < QuotaItems
    /\ HeldBecomes(Append(held.value, frame), "held.push")

\* held.splice(index, 1)
HeldRemove(index) ==
    /\ held.kind = "array"
    /\ HeldBecomes(spliceOut(held.value, index).rest, "held.splice")

\* const [moved] = held.splice(fromIndex, 1); held.splice(toIndex, 0, moved)
HeldReorder(fromIndex, toIndex) ==
    /\ held.kind = "array"
    /\ InRange(JSONstringify(held.value), fromIndex)
    /\ LET cut == spliceOut(held.value, fromIndex)
       IN  HeldBecomes(spliceIn(cut.rest, toIndex, cut.removed), "held.reorder")

\* ------------------------------------------------- camera.js capture page

\* updateUI(): the frame count and the onion skin image.
camUpdateUI(frames) ==
    [count |-> Len(frames),
     onion |-> IF Len(frames) > 0 THEN frames[Len(frames)].dataUrl ELSE "none"]

\* JSON.parse(localStorage.getItem('onionMotionFrames')) || []: getItem gives
\* null for an absent key, JSON.parse(null) is null, and null || [] is [].
camLoadFrames(st) ==
    IF st.kind = "absent" THEN [threw |-> FALSE, value |-> <<>>] ELSE JSONparse(st)

\* The capture button's click handler: push the new frame, saveFrames(),
\* updateUI(). An exception of setItem leaves the handler before updateUI().
captureClick(frames, st, shown, t, dataUrl) ==
    LET newFrame == [kind |-> "object", id |-> t, dataUrl |-> dataUrl]
        pushed == Append(frames, newFrame)
        w == setItem(st, JSONstringify(pushed))
    IN  [frames |-> pushed,
         storage |-> w.storage,
         shown |-> IF w.threw THEN shown ELSE camUpdateUI(pushed),
         outcome |-> IF w.threw THEN "QuotaExceededError" ELSE "ok"]

\* A click on the capture button. The array in memory grows on every click,
\* also on one whose write fails; the guard stops it one past the quota.
CamCapture(dataUrl) ==
    LET res == captureClick(camFrames, camStorage, camShown, now, dataUrl)
    IN  /\ Len(camFrames) <= QuotaItems
        /\ camFrames' = res.frames
        /\ camStorage' = res.storage
        /\ camShown' = res.shown
        /\ outcome' = res.outcome
        /\ op' = [name |-> "captureClick"]
        /\ ret' = Undefined
        /\ dispatched' = <<>>
        /\ UNCHANGED <<storage, now, probe, pageVars>>

\* The page is loaded again: DOMContentLoaded reads the record into a fresh
\* frames array and calls updateUI().
CamReload ==
    LET g == camLoadFrames(camStorage)
    IN  /\ camFrames' = g.value
        /\ camShown' = IF g.threw THEN camShown ELSE camUpdateUI(g.value)
        /\ outcome' = IF g.threw THEN "SyntaxError" ELSE "ok"
        /\ op' = [name |-> "DOMContentLoaded"]
        /\ ret' = Undefined
        /\ dispatched' = <<>>
        /\ UNCHANGED <<storage, now, camStorage, probe, pageVars>>

\* ------------------------------------------- app.js: VideoPlayerModule

\* How many timers may be live at once before play() is no longer called.
MaxTimers == 2

\* The values the fps slider hands to its input handler.
FpsInputs == {1, 12, 24}

\* Values asked of the progress slider: below, inside and above 0..length-1.
SeekInputs == -1 .. QuotaItems

\* What an <input type="range" min="0"> holds after it was asked to take
\* `requested` while its max attribute is `max`.
rangeValue(requested, max) ==
    IF max < 0 THEN 0 ELSE Min(Max(requested, 0), max)

\* The ids of the timers that are live or that intervalId still names.
usedIds(v) ==
    {t.id : t \in v.timers} \cup
        (IF v.intervalId.kind = "handle" THEN {v.intervalId.id} ELSE {})

\* setInterval(callback, interval): a timer under an id no other timer has.
setInterval(v, interval) ==
    LET used == usedIds(v)
        n == CHOOSE k \in 1 .. Cardinality(used) + 1 :
                 k \notin used /\ \A j \in 1 .. k - 1 : j \in used
    IN  [id |-> n, interval |-> interval]

\* clearInterval(handle): nothing happens for null or for an id no timer has.
clearInterval(timers, handle) ==
    {t \in timers : handle.kind = "handle" => t.id # handle.id}

\* The object literal: frames [], currentIndex 0, fps 12, isPlaying false,
\* loop true, intervalId null; nothing on the page yet.
VideoPlayerModule ==
    [frames |-> <<>>, currentIndex |-> 0, fps |-> 12, isPlaying |-> FALSE,
     loop |-> TRUE, intervalId |-> Null, timers |-> {},
     playButton |-> "Play", shown |-> [kind |-> "none"], sliderMax |-> 0,
     timeline |-> <<>>, rendered |-> FALSE]

\* A handler or a callback of the module is entered: it has rendered nothing
\* yet.
entered(v) == [v EXCEPT !.rendered = FALSE]

\* updatePlayButton()
updatePlayButton(v) ==
    [v EXCEPT !.playButton = IF v.isPlaying THEN "Pause" ELSE "Play"]

\* renderFrame(): returns early when frames[currentIndex] is not a frame;
\* rendered records that the display, the indicator, the slider and the
\* timeline's highlight were written.
renderFrame(v) ==
    LET i == v.currentIndex
    IN  IF i >= 0 /\ i < Len(v.frames) /\ IsObject(v.frames[i + 1])
        THEN [v EXCEPT !.shown = [kind |-> "frame",
                                  src |-> v.frames[i + 1].dataUrl,
                                  indicator |-> <<i + 1, Len(v.frames)>>,
                                  slider |-> rangeValue(i, v.sliderMax),
                                  active |-> i],
                      !.rendered = TRUE]
        ELSE v

\* pause() that forgets the timer without cancelling it.
pause_LeavesTheTimer(v) ==
    updatePlayButton([v EXCEPT !.isPlaying = FALSE, !.intervalId = Null])

\* pause()
pause(v) ==
    updatePlayButton([v EXCEPT !.isPlaying = FALSE,
                               !.timers = clearInterval(@, v.intervalId),
                               !.intervalId = Null])

\* play() without its test for an empty sequence.
play_OnAnEmptySequence(v) ==
    LET h == setInterval(v, <<1000, v.fps>>)
        b == updatePlayButton([v EXCEPT !.isPlaying = TRUE])
    IN  [b EXCEPT !.intervalId = [kind |-> "handle", id |-> h.id],
                  !.timers = @ \cup {h}]

\* play(): the part before the callback. The interval 1000 / fps is kept as
\* the pair <<1000, fps>>.
play(v) ==
    IF Len(v.frames) = 0 THEN v
    ELSE LET h == setInterval(v, <<1000, v.fps>>)
             b == updatePlayButton([v EXCEPT !.isPlaying = TRUE])
         IN  [b EXCEPT !.intervalId = [kind |-> "handle", id |-> h.id],
                       !.timers = @ \cup {h}]

\* The callback with no wrap: past the end it stays on the last frame.
playCallback_NeverWraps(v) ==
    LET i == v.currentIndex + 1
    IN  IF i >= Len(v.frames)
        THEN IF v.loop
             THEN renderFrame([v EXCEPT !.currentIndex = Len(v.frames) - 1])
             ELSE pause([v EXCEPT !.currentIndex = Len(v.frames) - 1])
        ELSE renderFrame([v EXCEPT !.currentIndex = i])

\* The callback play() hands to setInterval.
playCallback(v) ==
    LET i == v.currentIndex + 1
    IN  IF i >= Len(v.frames)
        THEN IF v.loop
             THEN renderFrame([v EXCEPT !.currentIndex = 0])
             ELSE pause([v EXCEPT !.currentIndex = Len(v.frames) - 1])
        ELSE renderFrame([v EXCEPT !.currentIndex = i])

\* togglePlay()
togglePlay(v) == IF v.isPlaying THEN pause(v) ELSE play(v)

\* reset()
reset(v) == renderFrame([pause(v) EXCEPT !.currentIndex = 0])

\* updateUI(): the timeline (one element per frame, its delete button
\* carrying the frame's id) and the progress slider's max.
updateUI(v) ==
    [v EXCEPT !.timeline = [i \in 1 .. Len(v.frames) |-> v.frames[i].id],
              !.sliderMax = Len(v.frames) - 1]

\* The input handler without its pause().
progressInput_KeepsPlaying(v, requested) ==
    renderFrame([v EXCEPT !.currentIndex = rangeValue(requested, v.sliderMax)])

\* The progress slider's input handler: pause(), currentIndex =
\* parseInt(e.target.value), renderFrame().
progressInput(v, requested) ==
    renderFrame([pause(v) EXCEPT !.currentIndex = rangeValue(requested, v.sliderMax)])

\* The click handler of a timeline element: pause(), currentIndex =
\* parseInt(el.dataset.index), renderFrame().
timelineClick(v, index) ==
    renderFrame([pause(v) EXCEPT !.currentIndex = index])

\* The fps handler that leaves a running timer as it is.
fpsInput_KeepsTheOldTimer(v, value) == [v EXCEPT !.fps = value]

\* The fps slider's input handler.
fpsInput(v, value) ==
    LET f == [v EXCEPT !.fps = value]
    IN  IF f.isPlaying THEN play(pause(f)) ELSE f

\* setupControls(): the listeners, and the progress slider's max.
setupControls(v) == [v EXCEPT !.sliderMax = Len(v.frames) - 1]

\* init(): with no frames the page is left for /homepage before any listener
\* is added.
init(v, st) ==
    LET g == getFrames(st)
        f == [v EXCEPT !.frames = g.value]
    IN  IF g.threw THEN [vp |-> v, page |-> "videopage", outcome |-> "SyntaxError"]
        ELSE IF Len(f.frames) = 0
        THEN [vp |-> f, page |-> "homepage", outcome |-> "ok"]
        ELSE [vp |-> renderFrame(updateUI(setupControls(f))),
              page |-> "videopage", outcome |-> "ok"]

\* The delete handler that follows the current frame: the index goes down
\* by one for a frame deleted below it.
deleteClick_FollowsTheFrame(v, st, id) ==
    LET d == deleteFrame(st, id)
        below == Cardinality({k \in 1 .. v.currentIndex : v.frames[k].id = id})
        f == [v EXCEPT !.frames = getFrames(d.storage).value,
                       !.currentIndex = @ - below]
        c == IF f.currentIndex >= Len(f.frames)
             THEN [f EXCEPT !.currentIndex = Len(f.frames) - 1] ELSE f
    IN  IF Len(v.frames) <= 1
        THEN [vp |-> v, storage |-> st, outcome |-> "alert", dispatched |-> <<>>]
        ELSE IF d.outcome # "ok"
        THEN [vp |-> v, storage |-> d.storage, outcome |-> d.outcome, dispatched |-> <<>>]
        ELSE [vp |-> renderFrame(updateUI(c)), storage |-> d.storage,
              outcome |-> "ok", dispatched |-> d.dispatched]

\* The delete handler without the clamp of currentIndex.
deleteClick_KeepsTheIndex(v, st, id) ==
    LET d == deleteFrame(st, id)
        f == [v EXCEPT !.frames = getFrames(d.storage).value]
    IN  IF Len(v.frames) <= 1
        THEN [vp |-> v, storage |-> st, outcome |-> "alert", dispatched |-> <<>>]
        ELSE IF d.outcome # "ok"
        THEN [vp |-> v, storage |-> d.storage, outcome |-> d.outcome, dispatched |-> <<>>]
        ELSE [vp |-> renderFrame(updateUI(f)), storage |-> d.storage,
              outcome |-> "ok", dispatched |-> d.dispatched]

\* The click handler of a timeline element's delete button.
deleteClick(v, st, id) ==
    LET d == deleteFrame(st, id)
        f == [v EXCEPT !.frames = getFrames(d.storage).value]
        c == IF f.currentIndex >= Len(f.frames)
             THEN [f EXCEPT !.currentIndex = Len(f.frames) - 1] ELSE f
    IN  IF Len(v.frames) <= 1
        THEN [vp |-> v, storage |-> st, outcome |-> "alert", dispatched |-> <<>>]
        ELSE IF d.outcome # "ok"
        THEN [vp |-> v, storage |-> d.storage, outcome |-> d.outcome, dispatched |-> <<>>]
        ELSE [vp |-> renderFrame(updateUI(c)), storage |-> d.storage,
              outcome |-> "ok", dispatched |-> d.dispatched]

\* A handler of the video page ran and left v in VideoPlayerModule; o names
\* the handler and what it was given.
VpDoes(o, v) ==
    /\ vp' = v
    /\ op' = o
    /\ outcome' = "ok"
    /\ ret' = Undefined
    /\ dispatched' = <<>>
    /\ UNCHANGED <<storage, now, camVars, probe, held, page, cp, ex, up>>

VpLeaves(name, v) == VpDoes([name |-> name], v)

\* A click on #btn-play.
VpTogglePlay ==
    /\ page = "videopage"
    /\ VpDoes([name |-> "togglePlay", wasPlaying |-> vp.isPlaying],
               togglePlay(entered(vp)))

\* A click on #btn-reset.
VpReset ==
    /\ page = "videopage"
    /\ VpLeaves("reset", reset(entered(vp)))

\* The loop checkbox changes.
VpLoopChange(checked) ==
    /\ page = "videopage"
    /\ checked # vp.loop
    /\ VpLeaves("loopChange", [entered(vp) EXCEPT !.loop = checked])

\* The progress slider is moved.
VpProgressInput(requested) ==
    /\ page = "videopage"
    /\ VpDoes([name |-> "progressInput", requested |-> requested,
                wasPlaying |-> vp.isPlaying],
               progressInput(entered(vp), requested))

\* A timeline element is clicked.
VpTimelineClick(index) ==
    /\ page = "videopage"
    /\ index >= 0 /\ index < Len(vp.timeline)
    /\ VpDoes([name |-> "timelineClick", requested |-> index,
                wasPlaying |-> vp.isPlaying],
               timelineClick(entered(vp), index))

\* The fps slider is moved.
VpFpsInput(value) ==
    /\ page = "videopage"
    /\ VpDoes([name |-> "fpsInput", value |-> value, wasPlaying |-> vp.isPlaying],
               fpsInput(entered(vp), value))

\* A live timer fires.
VpTick(t) ==
    /\ page = "videopage"
    /\ t \in vp.timers
    /\ VpLeaves("tick", playCallback(entered(vp)))

\* A delete button of the timeline is clicked.
VpDeleteClick(k) ==
    /\ page = "videopage"
    /\ k \in 1 .. Len(vp.timeline)
    /\ LET res == deleteClick(entered(vp), storage, vp.timeline[k])
       IN  /\ vp' = res.vp
           /\ storage' = res.storage
           /\ outcome' = res.outcome
           /\ dispatched' = res.dispatched
    /\ op' = [name |-> "deleteClick", index |-> vp.currentIndex]
    /\ ret' = Undefined
    /\ UNCHANGED <<now, camVars, probe, held, page, cp, ex, up>>

\* VideoPlayerModule.play() called as it stands, whatever isPlaying is. The
\* guard stops the count of live timers at MaxTimers.
VpPlayCall ==
    /\ page \in {"videopage", "homepage"}
    /\ Cardinality(vp.timers) < MaxTimers
    /\ VpLeaves("play", play(entered(vp)))

\* A click on #btn-back: pause(), then the page is left.
VpBack ==
    /\ page = "videopage"
    /\ vp' = pause(entered(vp))
    /\ page' = "homepage"
    /\ op' = [name |-> "back", wasPlaying |-> vp.isPlaying]
    /\ outcome' = "ok"
    /\ ret' = Undefined
    /\ dispatched' = <<>>
    /\ UNCHANGED <<storage, now, camVars, probe, held, cp, ex, up>>

\* beforeunload: pause() when intervalId is set; the page is left.
VpBeforeUnload ==
    /\ page = "videopage"
    /\ vp' = IF vp.intervalId.kind = "handle" THEN pause(entered(vp)) ELSE entered(vp)
    /\ page' = "unloaded"
    /\ op' = [name |-> "beforeunload", wasPlaying |-> vp.isPlaying]
    /\ outcome' = "ok"
    /\ ret' = Undefined
    /\ dispatched' = <<>>
    /\ UNCHANGED <<storage, now, camVars, probe, held, cp, ex, up>>

\* ------------------------------------------------- camera.js: the player

\* Positions of the speed slider, in percent of its track.
PercentInputs == {0, 50, 100}

\* Math.round(x) for x = num / den with den > 0: floor(x + 1/2).
MathRound(num, den) == (2 * num + den) \div (2 * den)

\* let frames, isPlaying = false, currentFrameIndex = 0, fps = 12,
\* intervalId = null, isDragging = false; nothing on the page yet.
CameraPlayer ==
    [frames |-> <<>>, isPlaying |-> FALSE, currentFrameIndex |-> 0, fps |-> 12,
     intervalId |-> Null, timers |-> {}, isDragging |-> FALSE,
     loopChecked |-> FALSE, playButton |-> "Play", shown |-> [kind |-> "none"],
     timeline |-> 0, error |-> "none"]

\* renderCurrentFrame(): reading .dataUrl of frames[currentFrameIndex] is a
\* TypeError when the index is outside a sequence that is not empty.
renderCurrentFrame(c) ==
    LET i == c.currentFrameIndex
    IN  IF Len(c.frames) = 0 THEN c
        ELSE IF i >= 0 /\ i < Len(c.frames) /\ IsObject(c.frames[i + 1])
        THEN [c EXCEPT !.shown = [kind |-> "frame",
                                  src |-> c.frames[i + 1].dataUrl,
                                  indicator |-> <<i + 1, Len(c.frames)>>,
                                  active |-> i]]
        ELSE [c EXCEPT !.error = "TypeError"]

\* renderTimeline(): one element per frame, each with its index.
renderTimeline(c) == [c EXCEPT !.timeline = Len(c.frames)]

\* stopAnimation(): intervalId keeps the id of the timer it cleared.
stopAnimation(c) ==
    [c EXCEPT !.isPlaying = FALSE, !.playButton = "Play",
              !.timers = clearInterval(@, c.intervalId)]

\* startAnimation(): the part before the callback.
startAnimation(c) ==
    IF Len(c.frames) = 0 THEN c
    ELSE LET h == setInterval(c, <<1000, c.fps>>)
         IN  [c EXCEPT !.isPlaying = TRUE, !.playButton = "Pause",
                       !.intervalId = [kind |-> "handle", id |-> h.id],
                       !.timers = @ \cup {h}]

\* The callback that, past the end without looping, keeps its timer.
animationCallback_KeepsRunning(c) ==
    LET i == c.currentFrameIndex + 1
    IN  IF i >= Len(c.frames)
        THEN IF c.loopChecked
             THEN renderCurrentFrame([c EXCEPT !.currentFrameIndex = 0])
             ELSE [c EXCEPT !.isPlaying = FALSE, !.playButton = "Play",
                            !.currentFrameIndex = Len(c.frames) - 1]
        ELSE renderCurrentFrame([c EXCEPT !.currentFrameIndex = i])

\* The callback startAnimation() hands to setInterval.
animationCallback(c) ==
    LET i == c.currentFrameIndex + 1
    IN  IF i >= Len(c.frames)
        THEN IF c.loopChecked
             THEN renderCurrentFrame([c EXCEPT !.currentFrameIndex = 0])
             ELSE [stopAnimation(c) EXCEPT !.currentFrameIndex = Len(c.frames) - 1]
        ELSE renderCurrentFrame([c EXCEPT !.currentFrameIndex = i])

\* togglePlay() of camera.js
camTogglePlay(c) == IF c.isPlaying THEN stopAnimation(c) ELSE startAnimation(c)

\* The reset button's click handler.
camReset(c) == renderCurrentFrame([stopAnimation(c) EXCEPT !.currentFrameIndex = 0])

\* The click handler of a timeline element.
camTimelineClick(c, index) ==
    renderCurrentFrame([stopAnimation(c) EXCEPT !.currentFrameIndex = index])

\* deleteFrame(index) of camera.js, after confirm() returned true.
camDeleteFrame(c, st, index) ==
    LET rest == spliceOut(c.frames, index).rest
        w == setItem(st, JSONstringify(rest))
        a == [c EXCEPT !.frames = rest]
        b == IF a.currentFrameIndex >= Len(rest)
             THEN [a EXCEPT !.currentFrameIndex = Len(rest) - 1] ELSE a
        d == IF b.currentFrameIndex < 0 THEN [b EXCEPT !.currentFrameIndex = 0] ELSE b
    IN  IF w.threw
        THEN [cp |-> a, storage |-> w.storage, outcome |-> "QuotaExceededError"]
        ELSE [cp |-> renderTimeline(renderCurrentFrame(d)), storage |-> w.storage,
              outcome |-> "ok"]

\* updateSpeed(e), the pointer at `percent` of the track.
updateSpeed(c, percent) ==
    LET f == [c EXCEPT !.fps = MathRound(percent * 23, 100) + 1]
    IN  IF f.isPlaying
        THEN startAnimation([f EXCEPT !.timers = clearInterval(@, f.intervalId)])
        ELSE f

\* The second DOMContentLoaded handler of camera.js.
camPlayerLoad(c, st) ==
    LET g == camLoadFrames(st)
        f == [c EXCEPT !.frames = g.value]
    IN  IF g.threw THEN [cp |-> c, outcome |-> "SyntaxError"]
        ELSE IF Len(f.frames) = 0
        THEN [cp |-> [f EXCEPT !.shown = [kind |-> "Keine Frames vorhanden"]],
              outcome |-> "ok"]
        ELSE [cp |-> renderTimeline(renderCurrentFrame(f)), outcome |-> "ok"]

\* A handler of the camera.js player ran and left c in its variables; o
\* names the handler and what it was given.
CpDoes(o, c) ==
    /\ cp' = c
    /\ op' = o
    /\ outcome' = "ok"
    /\ ret' = Undefined
    /\ dispatched' = <<>>
    /\ UNCHANGED <<storage, now, camVars, probe, held, page, vp, ex, up>>

CpLeaves(name, c) == CpDoes([name |-> name], c)

\* A click on .btn-play.
CpTogglePlay ==
    /\ page = "camera.js"
    /\ CpDoes([name |-> "togglePlay", wasPlaying |-> cp.isPlaying], camTogglePlay(cp))

\* A click on .btn-reset.
CpReset ==
    /\ page = "camera.js"
    /\ CpLeaves("reset", camReset(cp))

\* The user ticks or clears .loop-checkbox; the callback reads it.
CpLoopChange(checked) ==
    /\ page = "camera.js"
    /\ checked # cp.loopChecked
    /\ CpLeaves("loopChange", [cp EXCEPT !.loopChecked = checked])

\* A timeline element is clicked.
CpTimelineClick(index) ==
    /\ page = "camera.js"
    /\ index >= 0 /\ index < cp.timeline
    /\ CpDoes([name |-> "timelineClick", requested |-> index,
                wasPlaying |-> cp.isPlaying],
               camTimelineClick(cp, index))

\* mousedown on the speed slider.
CpMouseDown(percent) ==
    /\ page = "camera.js"
    /\ CpDoes([name |-> "updateSpeed", wasPlaying |-> cp.isPlaying],
               updateSpeed([cp EXCEPT !.isDragging = TRUE], percent))

\* mousemove: updateSpeed only while dragging.
CpMouseMove(percent) ==
    /\ page = "camera.js"
    /\ cp.isDragging
    /\ CpDoes([name |-> "updateSpeed", wasPlaying |-> cp.isPlaying],
               updateSpeed(cp, percent))

\* mouseup
CpMouseUp ==
    /\ page = "camera.js"
    /\ cp.isDragging
    /\ CpLeaves("mouseup", [cp EXCEPT !.isDragging = FALSE])

\* A live timer fires.
CpTick(t) ==
    /\ page = "camera.js"
    /\ t \in cp.timers
    /\ CpLeaves("tick", animationCallback(cp))

\* A delete button of the timeline is clicked; confirm() answers.
CpDeleteClick(index, confirmed) ==
    /\ page = "camera.js"
    /\ index >= 0 /\ index < cp.timeline
    /\ LET res == IF confirmed THEN camDeleteFrame(cp, camStorage, index)
                  ELSE [cp |-> cp, storage |-> camStorage, outcome |-> "ok"]
       IN  /\ cp' = res.cp
           /\ camStorage' = res.storage
           /\ outcome' = res.outcome
    /\ op' = [name |-> "deleteClick", index |-> cp.currentFrameIndex]
    /\ ret' = Undefined
    /\ dispatched' = <<>>
    /\ UNCHANGED <<storage, now, camFrames, camShown, probe, held, page, vp, ex, up>>

\* ------------------------------------------------------ app.js: export

\* for (let loop = 0; loop < 3; loop++) of downloadAsWebM
RecordingPasses == 3

\* The decimal digits of n, most significant first: String(n).
RECURSIVE String(_)
String(n) == IF n < 10 THEN <<n>> ELSE Append(String(n \div 10), n % 10)

\* digits.padStart(targetLength, '0')
padStart(digits, targetLength) ==
    [k \in 1 .. Max(targetLength - Len(digits), 0) |-> 0] \o digits

\* `frame-${String(i + 1).padStart(3, '0')}.png`
frameName(i) == <<"frame-", padStart(String(i + 1), 3), ".png">>

\* No job yet: the download button as the page has it, nothing downloaded.
\* started and startedFps are the frames and the fps the last job found when
\* it began.
\* hasGIF says whether typeof GIF is not 'undefined', hasRecorder whether
\* MediaRecorder exists.
Exporter ==
    [pc |-> "idle", format |-> "none", i |-> 0, loop |-> 0, img |-> "none",
     btnText |-> "original", btnDisabled |-> FALSE, originalText |-> "original",
     downloads |-> <<>>, alerts |-> <<>>, added |-> <<>>, drawn |-> <<>>,
     attempted |-> {}, started |-> <<>>, startedFps |-> 12, hasGIF |-> TRUE,
     hasRecorder |-> TRUE]

\* btn.innerHTML = originalText; btn.disabled = false; the job is over.
restoreButton(x) ==
    [x EXCEPT !.btnText = x.originalText, !.btnDisabled = FALSE, !.pc = "idle"]

\* downloadFramesAsZip() from its loop's test at index i up to the next await;
\* past the last frame it returns and its caller restores the button.
zipLoop(x, v, i) ==
    IF i < Len(v.frames)
    THEN [x EXCEPT !.downloads = Append(@, [name |-> frameName(i),
                                            href |-> v.frames[i + 1].dataUrl]),
                   !.i = i, !.pc = "zipWait"]
    ELSE restoreButton(x)

\* downloadFramesAsZip(): the alert, then the loop.
downloadFramesAsZip(x, v) ==
    zipLoop([x EXCEPT !.alerts = Append(@, "Frames werden einzeln heruntergeladen"),
                      !.attempted = @ \cup {"frames"}],
            v, 0)

\* The end of downloadAsGif's try block: gif.on('finished', ...) and
\* gif.render(), which throws or returns; the catch block falls back.
gifRender(x, v, throws) ==
    IF throws THEN downloadFramesAsZip(x, v) ELSE [x EXCEPT !.pc = "gifRender"]

\* downloadAsGif's loop from its test at index i up to the await of onload.
gifLoop(x, v, i, throws) ==
    IF i < Len(v.frames)
    THEN [x EXCEPT !.i = i, !.img = v.frames[i + 1].dataUrl, !.pc = "gifLoad"]
    ELSE gifRender(x, v, throws)

\* A download that starts without disabling its button.
startJob_LeavesTheButton(x, v, format, text) ==
    [x EXCEPT !.format = format, !.originalText = x.btnText, !.btnText = text,
              !.downloads = <<>>, !.alerts = <<>>,
              !.added = <<>>, !.drawn = <<>>, !.attempted = {},
              !.started = v.frames, !.startedFps = v.fps, !.i = 0, !.loop = 0]

\* What every download starts with: the button's text kept, the button
\* disabled; the job's record of what it did starts empty.
startJob(x, v, format, text) ==
    [x EXCEPT !.format = format, !.originalText = x.btnText, !.btnText = text,
              !.btnDisabled = TRUE, !.downloads = <<>>, !.alerts = <<>>,
              !.added = <<>>, !.drawn = <<>>, !.attempted = {},
              !.started = v.frames, !.startedFps = v.fps, !.i = 0, !.loop = 0]

\* downloadAsGif() up to its first await.
downloadAsGif(x, v, throws) ==
    LET b == startJob(x, v, "gif", <<"Erstelle GIF...", 0>>)
    IN  IF ~b.hasGIF THEN downloadFramesAsZip(b, v)
        ELSE gifLoop([b EXCEPT !.attempted = {"gif"}], v, 0, throws)

\* onload of downloadAsGif's image: drawImage, gif.addFrame (which throws or
\* returns), the percentage on the button, then the loop goes on.
gifLoaded(x, v, addThrows, renderThrows) ==
    IF addThrows THEN downloadFramesAsZip(x, v)
    ELSE gifLoop([x EXCEPT !.added = Append(@, [src |-> x.img,
                                                delay |-> <<1000, v.fps>>]),
                           !.btnText = <<"Erstelle GIF...",
                                         MathRound((x.i + 1) * 100, Len(v.frames))>>],
                 v, x.i + 1, renderThrows)

\* The 'finished' listener: the GIF is downloaded, the button restored.
gifFinished(x, t) ==
    restoreButton([x EXCEPT !.downloads = Append(@, [name |-> <<"onionmotion-", t, ".gif">>,
                                                     href |-> "blob"])])

\* downloadAsWebM's catch block: an alert, the button restored, nothing else.
webmCatch(x) ==
    restoreButton([x EXCEPT !.alerts = Append(@, "Video-Erstellung fehlgeschlagen")])

\* The loops of downloadAsWebM with the outer one left out: one pass.
webmLoop_OnePass(x, v, loop, i) ==
    IF i < Len(v.frames)
    THEN [x EXCEPT !.loop = loop, !.i = i, !.img = v.frames[i + 1].dataUrl,
                   !.pc = "webmLoad"]
    ELSE [x EXCEPT !.pc = "webmStop"]

\* downloadAsWebM's two loops from the inner test at (loop, i) up to the await
\* of onload; after the last pass recorder.stop() is called and onstop is due.
RECURSIVE webmLoop(_, _, _, _)
webmLoop(x, v, loop, i) ==
    IF loop < RecordingPasses
    THEN IF i < Len(v.frames)
         THEN [x EXCEPT !.loop = loop, !.i = i, !.img = v.frames[i + 1].dataUrl,
                        !.pc = "webmLoad"]
         ELSE webmLoop(x, v, loop + 1, 0)
    ELSE [x EXCEPT !.pc = "webmStop"]

\* downloadAsWebM() up to its first await. captureStream or new MediaRecorder
\* throws when MediaRecorder is missing, and may throw when it exists (the
\* mimeType is not supported).
downloadAsWebM(x, v, throws) ==
    LET b == [startJob(x, v, "webm", "Erstelle Video...") EXCEPT !.attempted = {"webm"}]
    IN  IF ~b.hasRecorder \/ throws THEN webmCatch(b) ELSE webmLoop(b, v, 0, 0)

\* onload of downloadAsWebM's image: drawImage, then the await of the timeout.
webmLoaded(x) == [x EXCEPT !.drawn = Append(@, x.img), !.pc = "webmWait"]

\* The timeout of 1000 / fps is over: the inner loop goes on.
webmTimeout(x, v) == webmLoop(x, v, x.loop, x.i + 1)

\* recorder.onstop: the video is downloaded, the button restored.
webmStopped(x, t) ==
    restoreButton([x EXCEPT !.downloads = Append(@, [name |-> <<"onionmotion-", t, ".webm">>,
                                                     href |-> "blob"])])

\* downloadVideo(): the format select's value, 'gif' when it has none.
downloadVideo(x, v, format, throws) ==
    IF format = "gif" THEN downloadAsGif(x, v, throws) ELSE downloadAsWebM(x, v, throws)

\* A step of the export left x in the job; the player is as it was.
ExDoes(name, x) ==
    /\ ex' = x
    /\ op' = [name |-> name]
    /\ outcome' = "ok"
    /\ ret' = Undefined
    /\ dispatched' = <<>>
    /\ UNCHANGED <<storage, now, camVars, probe, held, page, vp, cp, up>>

\* A click on #btn-download; a disabled button takes no click. throws says
\* whether the first call that can throw before the first await does.
ExDownloadClick(format, throws) ==
    /\ page = "videopage"
    /\ ~ex.btnDisabled
    /\ ExDoes("downloadVideo", downloadVideo(ex, vp, format, throws))

\* The image a download waits for has loaded.
ExImageLoaded(addThrows, renderThrows) ==
    /\ page = "videopage"
    /\ ex.pc \in {"gifLoad", "webmLoad"}
    /\ ex.pc = "webmLoad" => ~addThrows /\ ~renderThrows
    /\ ExDoes("onload", IF ex.pc = "gifLoad"
                        THEN gifLoaded(ex, vp, addThrows, renderThrows)
                        ELSE webmLoaded(ex))

\* A timeout a download waits for is over.
ExTimeout ==
    /\ page = "videopage"
    /\ ex.pc \in {"zipWait", "webmWait"}
    /\ ExDoes("timeout", IF ex.pc = "zipWait" THEN zipLoop(ex, vp, ex.i + 1)
                         ELSE webmTimeout(ex, vp))

\* gif.js announces the finished GIF.
ExGifFinished ==
    /\ page = "videopage"
    /\ ex.pc = "gifRender"
    /\ ExDoes("finished", gifFinished(ex, now))

\* The recorder announces that it stopped.
ExRecorderStopped ==
    /\ page = "videopage"
    /\ ex.pc = "webmStop"
    /\ ExDoes("onstop", webmStopped(ex, now))

\* The image a download waits for fires 'error' and not 'load': the promise
\* of new Promise(resolve => img.onload = resolve) has no other way to
\* settle, so the function never resumes; it neither returns nor throws.
imageError(x) == [x EXCEPT !.pc = "hung"]

\* The image a download waits for cannot be decoded.
ExImageError ==
    /\ page = "videopage"
    /\ ex.pc \in {"gifLoad", "webmLoad"}
    /\ ExDoes("onerror", imageError(ex))

\* ------------------------------------------------------ app.js: upload

\* The files of one batch, at most.
MaxFiles == 3

\* file.type as the pieces the code tests: <<"image/", "png">> is
\* 'image/png', <<>> the empty type of a file the browser cannot classify.
\* result is what reader.readAsDataURL gives; a file that is not readable
\* ends its read with 'error'.
Files ==
    {[type |-> <<"image/", "png">>, result |-> "data:imgA", readable |-> TRUE],
     [type |-> <<"image/", "jpeg">>, result |-> "data:imgB", readable |-> TRUE],
     [type |-> <<"image/", "png">>, result |-> "data:imgB", readable |-> FALSE],
     [type |-> <<"text/", "plain">>, result |-> "data:text", readable |-> TRUE]}

\* type.startsWith(prefix), for the one-piece prefixes the code uses.
startsWith(type, prefix) == Len(type) >= 1 /\ type[1] = prefix

\* No batch yet. files is the batch, reading the positions whose FileReader
\* has not called back, loaded the positions whose onload ran, in the order
\* they ran; before is the stored sequence when handleFiles was called,
\* refused whether an addFrame of the batch threw; redirect whether the
\* timeout of 500 ms to /frames is pending.
UploadModule ==
    [files |-> <<>>, reading |-> {}, loaded |-> <<>>, before |-> <<>>,
     refused |-> FALSE, redirect |-> FALSE]

\* handleFiles(files): a FileReader is started for every file whose type
\* starts with 'image/'; on /homepage the redirect is scheduled.
handleFiles(u, files, st, pathname) ==
    IF Len(files) = 0 THEN u
    ELSE [files |-> files,
          reading |-> {j \in 1 .. Len(files) : startsWith(files[j].type, "image/")},
          loaded |-> <<>>,
          before |-> getFrames(st).value,
          refused |-> FALSE,
          redirect |-> pathname = "homepage"]

\* reader.onload that writes what the store held when the batch began,
\* with its own frame after it.
readerOnload_AddsToItsSnapshot(u, st, j, t, r) ==
    LET res == saveFrames(st, Append(u.before, NewFrame(t, r, u.files[j].result)))
    IN  [up |-> [u EXCEPT !.reading = @ \ {j}, !.loaded = Append(@, j),
                          !.refused = @ \/ res.outcome # "ok"],
         res |-> res]

\* reader.onload of the file at position j: FrameStore.addFrame(e.target.result).
readerOnload(u, st, j, t, r) ==
    LET res == addFrame(st, u.files[j].result, t, r)
    IN  [up |-> [u EXCEPT !.reading = @ \ {j}, !.loaded = Append(@, j),
                          !.refused = @ \/ res.outcome # "ok"],
         res |-> res]

\* The read of the file at position j ends with 'error': the reader has no
\* onerror, nothing runs.
readerError(u, j) == [u EXCEPT !.reading = @ \ {j}]

\* A change of #upload-input or #add-more-input, or a drop on #drop-zone:
\* the first batch since the page was opened.
UpHandleFiles(files) ==
    /\ page \in {"homepage", "frames"}
    /\ up.files = <<>>
    /\ up' = handleFiles(up, files, storage, page)
    /\ op' = [name |-> "handleFiles"]
    /\ outcome' = "ok"
    /\ ret' = Undefined
    /\ dispatched' = <<>>
    /\ UNCHANGED <<storage, now, camVars, probe, held, page, vp, cp, ex>>

\* The FileReader of the file at position j has read it.
UpReaderLoad(j, r) ==
    /\ j \in up.reading
    /\ up.files[j].readable
    /\ LET o == readerOnload(up, storage, j, now, r)
       IN  /\ up' = o.up
           /\ Leaves(o.res)
    /\ op' = [name |-> "onload", file |-> j]
    /\ UNCHANGED <<now, camVars, probe, held, page, vp, cp, ex>>

\* The FileReader of the file at position j could not read it.
UpReaderError(j) ==
    /\ j \in up.reading
    /\ ~up.files[j].readable
    /\ up' = readerError(up, j)
    /\ op' = [name |-> "onerror", file |-> j]
    /\ outcome' = "ok"
    /\ ret' = Undefined
    /\ dispatched' = <<>>
    /\ UNCHANGED <<storage, now, camVars, probe, held, page, vp, cp, ex>>

\* The timeout of 500 ms on /homepage: the page is left for /frames, and
\* the readers that have not called back go with it.
UpRedirect ==
    /\ page = "homepage"
    /\ up.redirect
    /\ up' = [up EXCEPT !.reading = {}, !.redirect = FALSE]
    /\ page' = "frames"
    /\ op' = [name |-> "redirect"]
    /\ outcome' = "ok"
    /\ ret' = Undefined
    /\ dispatched' = <<>>
    /\ UNCHANGED <<storage, now, camVars, probe, held, vp, cp, ex>>

\* ---------------------------------------------------------- specifications

\* No caller holds an array yet, and no playback page is open.
InitPages ==
    /\ held = [kind |-> "none"]
    /\ page = "none"
    /\ vp = VideoPlayerModule
    /\ cp = CameraPlayer
    /\ ex = Exporter
    /\ up = UploadModule

Init ==
    /\ storage = Absent
    /\ now = 0
    /\ op = [name |-> "none"]
    /\ outcome = "ok"
    /\ ret = Undefined
    /\ dispatched = <<>>
    /\ camStorage = Absent
    /\ camFrames = <<>>
    /\ camShown = camUpdateUI(<<>>)
    /\ probe = [name |-> "none"]
    /\ InitPages

Next ==
    \/ Tick
    \/ \E dataUrl \in Images, r \in RandomSuffixes : AddFrame(dataUrl, r)
    \/ \E id \in IdInputs : DeleteFrame(id)
    \/ \E fromIndex \in IndexInputs, toIndex \in IndexInputs : ReorderFrames(fromIndex, toIndex)
    \/ ClearAll

\* The Frame Store of app.js, from a first visit (no record yet).
Spec == Init /\ [][Next]_vars

\* The same store, from a first visit or from a record that is not JSON.
InitDamaged ==
    /\ storage \in {Absent, Corrupt}
    /\ now = 0
    /\ op = [name |-> "none"]
    /\ outcome = "ok"
    /\ ret = Undefined
    /\ dispatched = <<>>
    /\ camStorage = Absent
    /\ camFrames = <<>>
    /\ camShown = camUpdateUI(<<>>)
    /\ probe = [name |-> "none"]
    /\ InitPages

SpecDamaged == InitDamaged /\ [][Next]_vars

\* The capture page of camera.js.
NextCamera ==
    \/ Tick
    \/ \E dataUrl \in Images : CamCapture(dataUrl)
    \/ CamReload

SpecCamera == Init /\ [][NextCamera]_vars

\* reorderFrames applied to stored sequences drawn from a pool: three frames
\* that addFrame makes (two of one clock value, payloads that differ) and the
\* null an out-of-range reorder leaves. Spec reaches each of these sequences.
ProbeFrames ==
    {NewFrame(0, "k3x9", "data:imgA"), NewFrame(0, "p07q", "data:imgB"),
     NewFrame(1, "k3x9", "data:imgB")}

SequencesUpTo(S, n) == UNION {[1 .. k -> S] : k \in 0 .. n}

InitStored ==
    /\ storage \in {JSONstringify(a) : a \in SequencesUpTo(ProbeFrames \cup {Null}, QuotaItems)}
    /\ now = 1
    /\ op = [name |-> "none"]
    /\ outcome = "ok"
    /\ ret = Undefined
    /\ dispatched = <<>>
    /\ camStorage = Absent
    /\ camFrames = <<>>
    /\ camShown = camUpdateUI(<<>>)
    /\ probe = [name |-> "none"]
    /\ InitPages

NextReorder ==
    \E fromIndex \in IndexInputs, toIndex \in IndexInputs : ReorderProbe(fromIndex, toIndex)

SpecReorder == InitStored /\ [][NextReorder]_vars

\* Four frames that addFrame makes, in the order they were added.
Album ==
    <<NewFrame(0, "k3x9", "data:imgA"), NewFrame(0, "p07q", "data:imgB"),
      NewFrame(1, "k3x9", "data:imgB"), NewFrame(1, "p07q", "data:imgA")>>

\* The first n of them.
AlbumUpTo(n) == SubSeq(Album, 1, Min(n, Len(Album)))

\* A record that holds the first n frames of the album, n up to the quota.
InitAlbum ==
    /\ storage \in {JSONstringify(AlbumUpTo(n)) : n \in 0 .. QuotaItems}
    /\ now = 1
    /\ op = [name |-> "none"]
    /\ outcome = "ok"
    /\ ret = Undefined
    /\ dispatched = <<>>
    /\ camStorage = Absent
    /\ camFrames = <<>>
    /\ camShown = camUpdateUI(<<>>)
    /\ probe = [name |-> "none"]
    /\ InitPages

NextSnapshot ==
    \/ ListCall
    \/ \E frame \in ProbeFrames : HeldPush(frame)
    \/ \E index \in IndexInputs : HeldRemove(index)
    \/ \E fromIndex \in IndexInputs, toIndex \in IndexInputs : HeldReorder(fromIndex, toIndex)

\* A caller that keeps the array getFrames() returned and changes it.
SpecSnapshot == InitAlbum /\ [][NextSnapshot]_vars

\* Frames that the capture page of camera.js makes: the id is Date.now().
CamAlbum ==
    <<[kind |-> "object", id |-> 0, dataUrl |-> "data:imgA"],
      [kind |-> "object", id |-> 0, dataUrl |-> "data:imgB"],
      [kind |-> "object", id |-> 1, dataUrl |-> "data:imgA"],
      [kind |-> "object", id |-> 1, dataUrl |-> "data:imgB"]>>

\* The first n of them.
CamAlbumUpTo(n) == SubSeq(CamAlbum, 1, Min(n, Len(CamAlbum)))

\* A playback page was opened on a record of n frames, n up to the quota:
\* /videopage with VideoPlayerModule.init() done, or a page of the camera.js
\* player with its DOMContentLoaded handler done and the loop checkbox as the
\* page's markup has it.
InitPlayer ==
    /\ now = 1
    /\ op = [name |-> "none"]
    /\ outcome = "ok"
    /\ ret = Undefined
    /\ dispatched = <<>>
    /\ camFrames = <<>>
    /\ camShown = camUpdateUI(<<>>)
    /\ probe = [name |-> "none"]
    /\ held = [kind |-> "none"]
    /\ ex = Exporter
    /\ up = UploadModule
    /\ \/ /\ storage \in {JSONstringify(AlbumUpTo(n)) : n \in 0 .. QuotaItems}
          /\ camStorage = Absent
          /\ vp = init(VideoPlayerModule, storage).vp
          /\ page = init(VideoPlayerModule, storage).page
          /\ cp = CameraPlayer
       \/ /\ storage = Absent
          /\ camStorage \in {Absent} \cup
                 {JSONstringify(CamAlbumUpTo(n)) : n \in 0 .. QuotaItems}
          /\ \E checked \in BOOLEAN :
                 cp = camPlayerLoad([CameraPlayer EXCEPT !.loopChecked = checked],
                                    camStorage).cp
          /\ page = "camera.js"
          /\ vp = VideoPlayerModule

\* What the user and the timers do on /videopage (app.js).
NextVideoPage ==
    \/ VpTogglePlay
    \/ VpReset
    \/ \E checked \in BOOLEAN : VpLoopChange(checked)
    \/ \E requested \in SeekInputs : VpProgressInput(requested)
    \/ \E index \in IndexInputs : VpTimelineClick(index)
    \/ \E value \in FpsInputs : VpFpsInput(value)
    \/ \E t \in vp.timers : VpTick(t)
    \/ \E k \in 1 .. QuotaItems : VpDeleteClick(k)
    \/ VpBack
    \/ VpBeforeUnload

\* What the user and the timers do on the page of the camera.js player.
NextCameraPlayer ==
    \/ CpTogglePlay
    \/ CpReset
    \/ \E checked \in BOOLEAN : CpLoopChange(checked)
    \/ \E index \in IndexInputs : CpTimelineClick(index)
    \/ \E percent \in PercentInputs : CpMouseDown(percent)
    \/ \E percent \in PercentInputs : CpMouseMove(percent)
    \/ CpMouseUp
    \/ \E t \in cp.timers : CpTick(t)
    \/ \E index \in IndexInputs, confirmed \in BOOLEAN : CpDeleteClick(index, confirmed)

NextPlayer == NextVideoPage \/ NextCameraPlayer

\* The playback page, driven through its controls.
SpecPlayer == InitPlayer /\ [][NextPlayer]_vars

NextPlayerCalls == NextPlayer \/ VpPlayCall

\* The playback page, its controls and play() called directly.
SpecPlayerCalls == InitPlayer /\ [][NextPlayerCalls]_vars

\* /videopage opened on 1 .. QuotaItems frames, in a browser that has or
\* lacks the GIF library and MediaRecorder.
InitExport ==
    /\ now = 1
    /\ op = [name |-> "none"]
    /\ outcome = "ok"
    /\ ret = Undefined
    /\ dispatched = <<>>
    /\ camStorage = Absent
    /\ camFrames = <<>>
    /\ camShown = camUpdateUI(<<>>)
    /\ probe = [name |-> "none"]
    /\ held = [kind |-> "none"]
    /\ cp = CameraPlayer
    /\ up = UploadModule
    /\ storage \in {JSONstringify(AlbumUpTo(n)) : n \in 1 .. QuotaItems}
    /\ vp = init(VideoPlayerModule, storage).vp
    /\ page = init(VideoPlayerModule, storage).page
    /\ \E g \in BOOLEAN, r \in BOOLEAN :
           ex = [Exporter EXCEPT !.hasGIF = g, !.hasRecorder = r]

\* The export's steps, and the control of the page that changes the frames
\* the export reads while it waits.
NextExport ==
    \/ \E format \in {"gif", "webm"}, throws \in BOOLEAN : ExDownloadClick(format, throws)
    \/ \E addThrows \in BOOLEAN, renderThrows \in BOOLEAN :
           ExImageLoaded(addThrows, renderThrows)
    \/ ExTimeout
    \/ ExGifFinished
    \/ ExRecorderStopped
    \/ \E k \in 1 .. QuotaItems : VpDeleteClick(k)

\* The export of /videopage.
SpecExport == InitExport /\ [][NextExport]_vars

\* The export's steps and the controls that change what the export reads
\* while it waits: the delete buttons and the fps slider.
NextExportEdits ==
    \/ NextExport
    \/ \E value \in FpsInputs : VpFpsInput(value)

\* The export of /videopage while the user goes on editing.
SpecExportEdits == InitExport /\ [][NextExportEdits]_vars

\* The export's steps, and an image that fails to load.
NextExportFair == NextExport \/ ExImageError

\* What the browser owes an export that waits: an image load settles, as
\* 'load' or as 'error'; a timeout runs out; the encoder and the recorder
\* that were started announce their end.
ExportFairness ==
    /\ WF_vars(ExImageError \/ \E addThrows \in BOOLEAN, renderThrows \in BOOLEAN :
                                   ExImageLoaded(addThrows, renderThrows))
    /\ WF_vars(ExTimeout)
    /\ WF_vars(ExGifFinished)
    /\ WF_vars(ExRecorderStopped)

\* The export of /videopage in a browser that keeps its promises.
SpecExportFair == InitExport /\ [][NextExportFair]_vars /\ ExportFairness

\* The batches handleFiles is given: up to MaxFiles files.
Batches == UNION {[1 .. n -> Files] : n \in 0 .. MaxFiles}

\* /homepage or /frames opened on a record of 0 .. QuotaItems frames.
InitUpload ==
    /\ storage \in {JSONstringify(AlbumUpTo(n)) : n \in 0 .. QuotaItems}
    /\ now = 1
    /\ op = [name |-> "none"]
    /\ outcome = "ok"
    /\ ret = Undefined
    /\ dispatched = <<>>
    /\ camStorage = Absent
    /\ camFrames = <<>>
    /\ camShown = camUpdateUI(<<>>)
    /\ probe = [name |-> "none"]
    /\ held = [kind |-> "none"]
    /\ page \in {"homepage", "frames"}
    /\ vp = VideoPlayerModule
    /\ cp = CameraPlayer
    /\ ex = Exporter
    /\ up = UploadModule

\* A batch is chosen, its readers call back in any order, the redirect of
\* /homepage comes at any moment.
NextUpload ==
    \/ up.files = <<>> /\ \E files \in Batches : UpHandleFiles(files)
    \/ \E j \in 1 .. MaxFiles, r \in RandomSuffixes : UpReaderLoad(j, r)
    \/ \E j \in 1 .. MaxFiles : UpReaderError(j)
    \/ UpRedirect

\* Uploads on /homepage and /frames.
SpecUpload == InitUpload /\ [][NextUpload]_vars

\* ------------------------------------------------------------------ claims

\* list(): what a fresh reader of the record gets.
list == getFrames(storage).value

\* The frames of arr (its elements that are objects) have pairwise distinct ids.
PairwiseDistinctIds(arr) ==
    \A i, j \in 1 .. Len(arr) :
        (i # j /\ IsObject(arr[i]) /\ IsObject(arr[j])) => arr[i].id # arr[j].id

\* arr without its element at position k (1-based).
RemoveAt(arr, k) == SubSeq(arr, 1, k - 1) \o SubSeq(arr, k + 1, Len(arr))

\* C1: after any sequence of adds, also adds at the same clock value, the ids of
\* the stored frames are pairwise distinct, in the Frame Store and in the
\* capture page's sequence.
C1_IdsPairwiseDistinct ==
    /\ PairwiseDistinctIds(list)
    /\ PairwiseDistinctIds(camFrames)
    /\ PairwiseDistinctIds(camLoadFrames(camStorage).value)

\* after is before with the element at index i moved to index j (0-based), the
\* other elements in their previous relative order.
MovedTo(before, after, i, j) ==
    /\ Len(after) = Len(before)
    /\ after[j + 1] = before[i + 1]
    /\ RemoveAt(after, j + 1) = RemoveAt(before, i + 1)

\* index is a position of the sequence arr (0-based).
IsIndexOf(arr, index) == index >= 0 /\ index < Len(arr)

\* C2: for valid indices i and j, reorder(i, j) followed by list() gives a
\* sequence of the same length in which the frame that was at i is at j and
\* all other frames keep their relative order.
C2_ReorderMovesOne ==
    (/\ probe.name = "reorderFrames"
     /\ IsIndexOf(probe.before, probe.fromIndex)
     /\ IsIndexOf(probe.before, probe.toIndex))
        => /\ outcome = "ok"
           /\ MovedTo(probe.before, list, probe.fromIndex, probe.toIndex)

\* A frame of a sequence of three different frames has been moved from the
\* first position to the last.
C2_Witness ==
    /\ probe.name = "reorderFrames"
    /\ probe.fromIndex = 0
    /\ probe.toIndex = 2
    /\ Len(probe.before) = 3
    /\ \A k \in 1 .. 3 : IsObject(probe.before[k])
    /\ Cardinality({probe.before[k] : k \in 1 .. 3}) = 3
    /\ op.inRange
    /\ outcome = "ok"

\* C3: reorder with fromIndex or toIndex outside 0..length-1 is a no-op: the
\* stored sequence is the same after the call as before it.
C3_ReorderOutOfRangeIsNoop ==
    [][\A i, j \in IndexInputs :
          (ReorderFrames(i, j) /\ ~(InRange(storage, i) /\ InRange(storage, j)))
              => list' = list]_vars

\* C4: after add(img) a fresh reader of the record finds a frame with the id
\* and the image payload of the frame add returned, and reads the very
\* sequence add held in memory when it saved.
C4_AddSurvivesReload ==
    (op.name = "addFrame" /\ outcome = "ok") =>
        /\ ~getFrames(storage).threw
        /\ \E k \in 1 .. Len(list) :
              /\ IsObject(list[k])
              /\ list[k].id = ret.id
              /\ list[k].dataUrl = ret.dataUrl
        /\ Len(dispatched) = 1
        /\ list = dispatched[1].detail

\* An add has returned its frame on a store that already held one.
C4_Witness ==
    /\ op.name = "addFrame"
    /\ outcome = "ok"
    /\ IsObject(ret)
    /\ Len(list) >= 2

\* C5: an add whose write fails on quota leaves no partial state: the persisted
\* sequence is the one before the call, nothing that runs on success has run
\* (no event, no UI update), and the caller's copy in memory equals the
\* persisted sequence.
C5_QuotaFailureLeavesNoPartialState ==
    [][(/\ \/ \E dataUrl \in Images, r \in RandomSuffixes : AddFrame(dataUrl, r)
           \/ \E dataUrl \in Images : CamCapture(dataUrl)
        /\ outcome' = "QuotaExceededError")
          => /\ list' = list
             /\ camLoadFrames(camStorage').value = camLoadFrames(camStorage).value
             /\ dispatched' = <<>>
             /\ camShown' = camShown
             /\ camFrames' = camLoadFrames(camStorage').value]_vars

\* C6: reading an absent or unparseable record gives the empty sequence and
\* raises nothing, and no store operation ends by the parse error.
C6_CorruptRecordReadsAsEmpty ==
    /\ storage.kind \in {"absent", "corrupt"} =>
          (~getFrames(storage).threw /\ getFrames(storage).value = <<>>)
    /\ outcome # "SyntaxError"

\* arr without the frames whose id is id, everything else in place.
WithoutId(arr, id) ==
    LET keep(f) == ~(IsObject(f) /\ f.id = id) IN SelectSeq(arr, keep)

\* C7: delete(id) raises no error and leaves the previous sequence without the
\* frame of that id, the others in their previous order; the sequence is
\* unchanged when no frame has that id.
C7_DeleteRemovesTheFrame ==
    [][\A id \in IdInputs :
          DeleteFrame(id) => (outcome' = "ok" /\ list' = WithoutId(list, id))]_vars

\* C8: an add that returns has appended exactly the returned frame at the end,
\* the frames before it unchanged in content and position, and the returned
\* frame carries the given payload.
C8_AddAppendsOne ==
    [][\A dataUrl \in Images, r \in RandomSuffixes :
          (op'.name = "addFrame" /\ outcome' = "ok" /\ AddFrame(dataUrl, r))
              => /\ IsObject(ret')
                 /\ ret'.dataUrl = dataUrl
                 /\ list' = Append(list, ret')]_vars

\* An add has returned on a store that held two frames of different payloads.
C8_Witness ==
    /\ op.name = "addFrame"
    /\ outcome = "ok"
    /\ Len(list) = 3
    /\ IsObject(list[1])
    /\ IsObject(list[2])
    /\ list[1].dataUrl # list[2].dataUrl

\* C9: after clearAll(), the first or a repeated one, list() is empty and no
\* error was raised.
C9_ClearAllIsIdempotent ==
    op.name = "clearAll" => (outcome = "ok" /\ ~getFrames(storage).threw /\ list = <<>>)

\* clearAll() has run right after clearAll().
C9_Witness ==
    /\ op.name = "clearAll"
    /\ op.again
    /\ list = <<>>

\* The handlers that mutate the store.
Mutations == {"addFrame", "deleteFrame", "reorderFrames", "clearAll"}

\* C10: a mutation that succeeds dispatches exactly one event, which carries
\* the sequence just written and is dispatched when the record already holds
\* it; a mutation whose write fails dispatches nothing.
C10_OneEventAfterTheWrite ==
    op.name \in Mutations =>
        IF outcome = "ok"
        THEN /\ Len(dispatched) = 1
             /\ JSONstringify(dispatched[1].detail) = storage
             /\ dispatched[1].persisted = storage
        ELSE dispatched = <<>>

\* A mutation has written a non-empty sequence and dispatched its event.
C10_Witness ==
    /\ op.name \in Mutations
    /\ outcome = "ok"
    /\ Len(dispatched) = 1
    /\ Len(dispatched[1].detail) >= 2

\* What the caller did last to the array it keeps.
HeldOps == {"held.push", "held.splice", "held.reorder"}

Player ==
    IF page = "camera.js"
    THEN [frames |-> cp.frames, index |-> cp.currentFrameIndex, playing |-> cp.isPlaying,
          loop |-> cp.loopChecked, fps |-> cp.fps, timers |-> cp.timers]
    ELSE [frames |-> vp.frames, index |-> vp.currentIndex, playing |-> vp.isPlaying,
          loop |-> vp.loop, fps |-> vp.fps, timers |-> vp.timers]

\* The number of frames the controller plays.
N == Len(Player.frames)

\* C12: with looping enabled and N >= 1 frames, every tick while Playing
\* takes currentIndex from i to (i + 1) mod N and leaves the controller
\* Playing on the same timer and the same frames.
C12_LoopingTickWraps ==
    [][op'.name = "tick" /\ Player.playing /\ Player.loop /\ N >= 1
        => /\ Player'.index = (Player.index + 1) % N
           /\ Player'.playing
           /\ Player'.timers = Player.timers
           /\ Player'.frames = Player.frames]_vars

\* A tick has just wrapped a looping run over three frames back to 0.
C12_Witness ==
    /\ op.name = "tick"
    /\ Player.playing /\ Player.loop
    /\ N = 3
    /\ Player.index = 0

\* C13: with looping disabled and N >= 1 frames, a tick while Playing moves
\* currentIndex up by one below N - 1; at N - 1 it leaves the index there,
\* the controller Paused and no timer live, so that no further tick fires.
\* The index never decreases.
C13_RunEndsOnTheLastFrame ==
    [][op'.name = "tick" /\ Player.playing /\ ~Player.loop /\ N >= 1
        => /\ Player'.index >= Player.index
           /\ IF Player.index < N - 1
              THEN Player'.index = Player.index + 1 /\ Player'.playing
                   /\ Player'.timers = Player.timers
              ELSE Player'.index = N - 1 /\ ~Player'.playing
                   /\ Player'.timers = {}]_vars

\* A tick has just ended a run over three frames on the last one.
C13_Witness ==
    /\ op.name = "tick"
    /\ ~Player.playing /\ ~Player.loop
    /\ N = 3
    /\ Player.index = 2
    /\ Player.timers = {}

C14_WitnessPaused ==
    /\ op.name = "deleteClick"
    /\ op.index = 2
    /\ N = 2
    /\ Player.index = 1
    /\ ~Player.playing

\* C15: play() changes nothing when the controller is already Playing or has
\* no frames, and starts no further timer; from Paused it makes the
\* controller Playing on one timer of period 1000 / fps.
C15_PlayIsANoopWhenPlaying ==
    [][op'.name = "play"
        => IF vp.isPlaying \/ Len(vp.frames) = 0
           THEN vp' = entered(vp)
           ELSE /\ vp'.isPlaying
                /\ vp'.timers = vp.timers \cup
                       {[id |-> vp'.intervalId.id, interval |-> <<1000, vp.fps>>]}
                /\ Cardinality(vp'.timers) = Cardinality(vp.timers) + 1
                /\ vp'.currentIndex = vp.currentIndex
                /\ vp'.frames = vp.frames]_vars

\* The two ways to seek: the progress slider and a click on the timeline.
SeekOps == {"progressInput", "timelineClick"}

\* C16: a seek, from Playing or from Paused and for any requested value,
\* leaves the controller Paused with no live timer and currentIndex at the
\* requested value clamped into 0 .. N - 1; the frames are untouched. The
\* progress slider and the timeline click both do so.
C16_SeekPausesAndClamps ==
    [][op'.name \in SeekOps
        => /\ ~Player'.playing
           /\ Player'.timers = {}
           /\ Player'.index = Min(Max(op'.requested, 0), N - 1)
           /\ Player'.frames = Player.frames]_vars

\* The slider was asked while Playing for a position past the last of three
\* frames.
C16_Witness ==
    /\ op.name = "progressInput"
    /\ op.wasPlaying
    /\ N = 3
    /\ op.requested > 2
    /\ Player.index = 2
    /\ ~Player.playing

\* A frame of the timeline was clicked while Playing.
C16_WitnessTimeline ==
    /\ op.name = "timelineClick"
    /\ op.wasPlaying
    /\ Player.index = op.requested
    /\ ~Player.playing

\* The steps that end in pause() or are the page being left: a click on the
\* play button while Playing, the back button, beforeunload.
PauseOps == {"togglePlay", "back", "beforeunload"}

\* pause() of the script that runs the page, applied once more.
PausedAgain ==
    IF page = "camera.js" THEN stopAnimation(cp) = cp ELSE pause(vp) = vp

\* C17: pause() and leaving the page cancel the live timer. After either the
\* controller is not Playing and no timer is live, currentIndex is where it
\* was, and a second pause() changes nothing; a controller that is not
\* Playing has no timer, so its currentIndex does not move until play().
C17_PauseCancelsTheTimer ==
    [][/\ op'.name \in PauseOps /\ (Player.playing \/ op'.name # "togglePlay")
          => /\ ~Player'.playing
             /\ Player'.timers = {}
             /\ Player'.index = Player.index
             /\ PausedAgain'
       /\ ~Player.playing => Player.timers = {} /\ op'.name # "tick"]_vars

\* The page was left while Playing.
C17_Witness ==
    /\ op.name = "beforeunload"
    /\ op.wasPlaying
    /\ page = "unloaded"
    /\ ~vp.isPlaying
    /\ vp.timers = {}

\* The play button was clicked while Playing.
C17_WitnessPause ==
    /\ op.name = "togglePlay"
    /\ op.wasPlaying
    /\ ~Player.playing
    /\ Player.timers = {}

\* The two handlers that set the frame rate.
FpsOps == {"fpsInput", "updateSpeed"}

C18_WitnessPaused ==
    /\ op.name = "fpsInput"
    /\ ~op.wasPlaying
    /\ vp.fps = 1
    /\ vp.timers = {}

\* An export job has run to its end.
JobEnded == ex.pc = "idle" /\ ex.format # "none"

\* One artifact per frame of fs, named frame-001.png, frame-002.png, ... in
\* the order of fs.
OnePerFrame(fs) ==
    [k \in 1 .. Len(fs) |-> [name |-> frameName(k - 1), href |-> fs[k].dataUrl]]

\* C19: when neither the GIF encoder nor the recorder is available, an export
\* ends having downloaded exactly one artifact per frame of the sequence it
\* started on, named frame-001.png, frame-002.png, ... in sequence order, and
\* with no GIF encoder the recorder is not attempted.
C19_FallbackDownloadsEveryFrame ==
    /\ JobEnded /\ ~ex.hasGIF /\ ~ex.hasRecorder
         => ex.downloads = OnePerFrame(ex.started)
    /\ JobEnded /\ ~ex.hasGIF => "webm" \notin ex.attempted

\* C20: an export started on at least one frame, whichever format was asked
\* for and whichever strategy was missing or threw, ends having downloaded
\* something, and the user is not told that it failed.
C20_ExportAlwaysProducesArtifacts ==
    JobEnded /\ Len(ex.started) >= 1
        => /\ Len(ex.downloads) >= 1
           /\ \A k \in 1 .. Len(ex.alerts) : ex.alerts[k] # "Video-Erstellung fehlgeschlagen"

\* C21: every export job ends: once the download button is disabled it is
\* enabled again later, with the label it had before the job, whatever the
\* image loads, the encoder and the recorder do.
C21_EveryJobEnds ==
    ex.btnDisabled ~> (~ex.btnDisabled /\ ex.btnText = ex.originalText)

\* The GIF export is under way: the button is disabled and carries a
\* percentage.
GifInProgress == ex.format = "gif" /\ ex.btnDisabled

\* The percentage on the button.
Progress == ex.btnText[2]

\* The finished GIF has been downloaded.
GifDownloaded ==
    \E k \in 1 .. Len(ex.downloads) : ex.downloads[k].name[3] = ".gif"

\* While a GIF export is under way the percentage never drops.
ProgressNeverDrops ==
    [][GifInProgress /\ GifInProgress' => Progress' >= Progress]_vars

\* C22: the progress of a GIF export reads 100% only when the export has
\* completed with its artifact downloaded, never while the encoding is
\* pending nor in a job that fails or falls back.
C22_HundredOnlyWhenDone ==
    GifInProgress /\ Progress = 100 => GifDownloaded

\* An export job is in progress: downloadVideo() was called and the job has
\* not yet restored the button.
JobInProgress == ex.pc # "idle"

\* C23: at most one export job is in progress at any time: while a job is in
\* progress the download button is disabled, and downloadVideo() is only
\* ever entered when no job is in progress, whatever the user does.
C23_OneJobAtATime ==
    [][/\ JobInProgress' => ex'.btnDisabled
       /\ op'.name = "downloadVideo" => ~JobInProgress]_vars

\* The second pass of a recording, after a frame was deleted during the job:
\* the button is still disabled.
C23_Witness ==
    /\ ex.pc = "webmWait"
    /\ ex.loop = 1
    /\ ex.btnDisabled
    /\ Len(vp.frames) < Len(ex.started)

\* Idle: the controller has no frames, is not playing and has no timer.
Idle == N = 0 /\ ~Player.playing /\ Player.timers = {}

\* What the playback view displays.
Shown == IF page = "camera.js" THEN cp.shown ELSE vp.shown

\* The store was empty when the view was entered: the controller is Idle
\* and has never rendered a frame.
IdleOnEntry == Idle /\ Shown.kind # "frame"

\* The controller as the entry to the playback view leaves it.
Entered ==
    /\ N >= 1 => ~Player.playing /\ Player.index = 0 /\ Player.timers = {}
    /\ N = 0 => IdleOnEntry /\ (page # "camera.js" => page = "homepage")

\* C24: the playback view is entered Paused at index 0 with no timer when
\* the store has frames and Idle (app.js: redirected to the homepage) when it
\* is empty; on an empty store no operation raises an error, starts a timer,
\* renders or moves the index, and play() changes nothing at all.
C24_EntryAndEmptyStore ==
    /\ Entered
    /\ [][IdleOnEntry => /\ IdleOnEntry'
                         /\ Player'.index = Player.index
                         /\ outcome' = "ok" /\ cp'.error = "none"
                         /\ op'.name \in {"play", "togglePlay"}
                                => vp' = vp /\ cp' = cp]_vars

\* play() was called on the controller of an empty store.
C24_Witness ==
    /\ op.name = "play"
    /\ page = "homepage"
    /\ IdleOnEntry

\* The play button of the camera.js player was clicked on an empty store.
C24_WitnessCamera ==
    /\ op.name = "togglePlay"
    /\ page = "camera.js"
    /\ IdleOnEntry

\* C25: whenever the sequence of the playback view is non-empty, after every
\* handler and every timer callback the index is a position of the sequence:
\* 0 <= currentIndex <= length - 1.
C25_IndexInRange == N >= 1 => Player.index >= 0 /\ Player.index <= N - 1

\* A deletion found the index on the last frame and left it on the new last
\* frame while the timer runs.
C25_Witness ==
    /\ op.name = "deleteClick"
    /\ op.index = N
    /\ Player.index = N - 1
    /\ N >= 1
    /\ Player.playing
    /\ page = "videopage"

\* The handle the controller of the open page keeps.
Handle == IF page = "camera.js" THEN cp.intervalId ELSE vp.intervalId

\* C26: at most one playback timer is live; a timer is live exactly when the
\* controller is playing, and every live timer is the one the controller's
\* handle names.
C26_OneLiveTimer ==
    /\ Cardinality(Player.timers) <= 1
    /\ Player.timers # {} <=> Player.playing
    /\ \A t \in Player.timers : Handle = [kind |-> "handle", id |-> t.id]

\* C27: a click on a frame's delete button when the sequence has one frame
\* is refused: the sequence, the controller and the store stay as they are,
\* so a sequence that has a frame never becomes empty.
C27_LastFrameIsKept ==
    [][op'.name = "deleteClick" /\ N = 1
          => N' = 1 /\ Player' = Player /\ storage' = storage
                    /\ camStorage' = camStorage]_vars

\* The handlers and callbacks of /videopage that change the playback state:
\* play and pause (the play button), a tick, a seek, a reset, a deletion.
RenderOps ==
    {"togglePlay", "tick", "progressInput", "timelineClick", "reset", "deleteClick"}

\* The render signal for the controller v: what renderFrame() writes for
\* v's index, length and frame.
Signal(v) ==
    [kind |-> "frame", src |-> v.frames[v.currentIndex + 1].dataUrl,
     indicator |-> <<v.currentIndex + 1, Len(v.frames)>>,
     slider |-> v.currentIndex, active |-> v.currentIndex]

\* C28: every tick and every change of the playback state on /videopage
\* (play, pause, seek, reset, the end of a run without loop, a deletion that
\* is carried out) renders, and what is rendered is the index, the length
\* and the frame the controller then has.
C28_EveryChangeRenders ==
    [][op'.name \in RenderOps /\ page = "videopage" /\ outcome' # "alert"
          => vp'.rendered /\ vp'.shown = Signal(vp')]_vars

\* The images of the frames fs, in the order of fs.
Sources(fs) == [k \in 1 .. Len(fs) |-> fs[k].dataUrl]

\* No frame was deleted since the export job started.
Undisturbed == vp.frames = ex.started

Passes(fs, n) == [k \in 1 .. n * Len(fs) |-> fs[((k - 1) % Len(fs)) + 1]]

Encoded(fs, fps) ==
    [k \in 1 .. Len(fs) |-> [src |-> fs[k].dataUrl, delay |-> <<1000, fps>>]]

\* C30: an export encodes the sequence as it was when the job started: the
\* finished GIF holds exactly those frames, in that order, each with the
\* delay of the fps of that moment, and every pass of a finished recording
\* draws exactly those frames, whatever was deleted and whatever the fps
\* slider did while the job ran.
C30_ExportEncodesASnapshot ==
    /\ JobEnded /\ GifDownloaded
          => ex.added = Encoded(ex.started, ex.startedFps)
    /\ ex.pc = "webmStop"
          => ex.drawn = Passes(Sources(ex.started), RecordingPasses)

\* The files of the batch that are images and can be read: the k files
\* whose read-completion callbacks fire.
ImageFiles ==
    {j \in 1 .. Len(up.files) :
        startsWith(up.files[j].type, "image/") /\ up.files[j].readable}

\* The positions whose callback has run.
Loaded == {up.loaded[k] : k \in 1 .. Len(up.loaded)}

\* Every callback of the batch has run.
AllCallbacksRan == up.files # <<>> /\ ImageFiles \subseteq Loaded

Without(fs, p) == SubSeq(fs, 1, p) \o SubSeq(fs, p + 2, Len(fs))

\* The frame the controller has as current.
Current == Player.frames[Player.index + 1]

\* C32: the playback view tracks the current frame by position. A deletion
\* of a position below currentIndex, with currentIndex still a position of
\* the shorter sequence, leaves currentIndex as it was, so the current frame
\* and the frame displayed become the frame that followed the previous
\* current one; a deletion of a position above currentIndex changes neither
\* currentIndex nor the current frame.
C32_CurrentIsAPosition ==
    [][op'.name = "deleteClick" /\ N' = N - 1 /\ N' >= 1
          => \A p \in 0 .. N - 1 :
                 Player'.frames = Without(Player.frames, p)
                     => /\ p < Player.index /\ Player.index < N'
                              => /\ Player'.index = Player.index
                                 /\ Current' = Player.frames[Player.index + 2]
                                 /\ Current' # Current
                                 /\ Shown'.src = Current'.dataUrl
                        /\ p > Player.index
                              => /\ Player'.index = Player.index
                                 /\ Current' = Current]_vars

\* The first of three frames was deleted on /videopage while the second was
\* current: the index is still 1 and the third frame is displayed.
C32_Witness ==
    /\ op.name = "deleteClick"
    /\ op.index = 1
    /\ page = "videopage"
    /\ vp.frames = Without(AlbumUpTo(3), 0)
    /\ vp.currentIndex = 1
    /\ vp.shown.src = Album[3].dataUrl

\* The last of three frames was deleted in the camera.js player while the
\* first was current.
C32_WitnessAbove ==
    /\ op.name = "deleteClick"
    /\ op.index = 0
    /\ page = "camera.js"
    /\ cp.frames = Without(CamAlbumUpTo(3), 2)
    /\ cp.currentFrameIndex = 0

====
